---- MODULE Spec2Model ----
(***************************************************************************)
(* Contour reconstruction of the Martinez boolean-operation sweep:         *)
(* lib/src/boolean/connect_edges.rs (order_events, next_pos,               *)
(* Contour::initialize_from_context, mark_as_processed, connect_edges).    *)
(*                                                                         *)
(* Sweep events are identified by the integers 1..n; 0 stands for an       *)
(* absent event (Option::None / a dead Weak reference).  Positions in      *)
(* result_events, contour ids and other_pos are 0-based as in the source;  *)
(* the element at position p of a TLA+ sequence s is s[p + 1].             *)
(***************************************************************************)
EXTENDS Integers, Sequences, FiniteSets, TLC

\* Largest number of sweep events of an input of the order_events specification.
MaxEvents == 3
\* Points of those events: ranked 1..MaxOrderPoint in the sweep's (x, then y) order.
MaxOrderPoint == 2
\* Points of a generic input of the connect_edges specification, ranked likewise.
MaxPoint == 3
\* Number of segments of a generic input of the connect_edges specification.
MaxSegs == 3
\* Number of triangles of a nesting input of the connect_edges specification.
MaxRings == 4
\* Largest length of the event sequence of an input of the next_pos specification.
MaxScanLen == 5
\* Points of those events, ranked 1..MaxScanPoint.
MaxScanPoint == 3

VARIABLES
    events,             \* event id -> the event's immutable fields
    sorted_events,      \* the input slice of connect_edges / order_events
    result_events,      \* order_events: the Vec being built and returned
    sorted,             \* order_events: the flag of the exchange-sort loop
    other_pos,          \* event id -> SweepEvent.other_pos (mutable slot)
    output_contour_id,  \* event id -> SweepEvent.output_contour_id (mutable slot)
    contours,           \* connect_edges: Vec<Contour>
    processed,          \* connect_edges: HashSet<i32>
    i,                  \* connect_edges: the for-loop variable
    contour_id,         \* connect_edges: id of the contour being walked
    contour,            \* connect_edges: the contour being walked
    orig_pos,           \* connect_edges: seed position of the walk
    pos,                \* connect_edges: current position of the walk
    ret,                \* next_pos called on its own: the value returned
    pc,                 \* control position
    marks,              \* history: the calls of mark_as_processed, <<pos, contour_id>>
    seeds,              \* history: seed position of each pushed contour
    first_run           \* history: what the previous run of order_events returned

vars == <<events, sorted_events, result_events, sorted, other_pos,
          output_contour_id, contours, processed, i, contour_id, contour,
          orig_pos, pos, ret, pc, marks, seeds, first_run>>

connectVars == <<output_contour_id, contours, processed, i, contour_id,
                 contour, orig_pos, pos, ret, marks, seeds>>

NoEvent == 0
UnsetContourId == -1
\* Option<i32> is a sequence of at most one element: <<>> is None, <<p>> is Some(p).
None == <<>>
Some(x) == <<x>>
NoContour == [points |-> <<>>, hole_ids |-> <<>>, hole_of |-> None, depth |-> 0]
Transitions == {"None", "OutIn", "InOut"}

-----------------------------------------------------------------------------
(* Sweep events (sweep_event.rs, not part of the files at hand).           *)

\* The paired event's id, NoEvent when get_other_event() is None.
OtherEvent(ev, e) == ev[e].other

\* Position of the sweep order: a comes strictly before b.  Points first,
\* at one point right endpoints before left endpoints; events the comparator
\* does not tell apart are in neither order.
SweepBefore(ev, a, b) ==
    \/ ev[a].point < ev[b].point
    \/ /\ ev[a].point = ev[b].point
       /\ ~ev[a].is_left
       /\ ev[b].is_left

\* `a < b` of the events' Ord: the order of the sweep's max-heap, in which the
\* event processed LATER is the smaller one.
EventLess(ev, a, b) == SweepBefore(ev, b, a)

-----------------------------------------------------------------------------
(* order_events                                                            *)

\* Faulty filter: a right event is kept by its own flag.
KeepEventOwnFlag(ev, e) ==
    \/ ev[e].is_left /\ ev[e].in_result
    \/ ~ev[e].is_left /\ ev[e].in_result

\* connect_edges.rs:14-15, the filter's condition.
KeepEvent(ev, e) ==
    \/ ev[e].is_left /\ ev[e].in_result
    \/ /\ ~ev[e].is_left
       /\ IF OtherEvent(ev, e) # NoEvent THEN ev[OtherEvent(ev, e)].in_result ELSE FALSE

RECURSIVE FilterFrom(_, _, _)
FilterFrom(ev, input, k) ==
    IF k > Len(input) THEN <<>>
    ELSE (IF KeepEvent(ev, input[k]) THEN <<input[k]>> ELSE <<>>)
         \o FilterFrom(ev, input, k + 1)

\* connect_edges.rs:11-19.
FilterEvents(ev, input) == FilterFrom(ev, input, 1)

Swap(s, a, b) == [s EXCEPT ![a] = s[b], ![b] = s[a]]

\* Faulty exchange condition: `<=` for `<`.
OutOfOrderNonStrict(ev, a, b) == ~EventLess(ev, b, a)

\* connect_edges.rs:25, the condition of the exchange.
OutOfOrder(ev, a, b) == EventLess(ev, a, b)

\* One run of the for loop of connect_edges.rs:24-29 from index k on (k is the
\* 1-based index of result_events[i]); st = [seq, sorted].
RECURSIVE PassFrom(_, _, _)
PassFrom(ev, st, k) ==
    IF k > Len(st.seq) THEN st
    ELSE IF OutOfOrder(ev, st.seq[k - 1], st.seq[k])
         THEN PassFrom(ev, [seq |-> Swap(st.seq, k - 1, k), sorted |-> FALSE], k + 1)
         ELSE PassFrom(ev, st, k + 1)

\* Faulty loop: `sorted` is never reset, the loop ends after one pass.
SortPassOnce(ev, seq) == [seq |-> PassFrom(ev, [seq |-> seq, sorted |-> TRUE], 2).seq,
                          sorted |-> TRUE]

\* connect_edges.rs:23-29, one iteration of `while !sorted`.
SortPass(ev, seq) == PassFrom(ev, [seq |-> seq, sorted |-> TRUE], 2)

\* connect_edges.rs:21-30, the whole loop.
RECURSIVE SortEvents(_, _)
SortEvents(ev, seq) ==
    LET st == SortPass(ev, seq)
    IN  IF st.sorted THEN st.seq ELSE SortEvents(ev, st.seq)

\* Faulty first loop: positions are counted from 1.
RECURSIVE SetOwnPosOneBased(_, _, _)
SetOwnPosOneBased(op, seq, k) ==
    IF k > Len(seq) THEN op
    ELSE SetOwnPosOneBased([op EXCEPT ![seq[k]] = k], seq, k + 1)

\* connect_edges.rs:33-35.
RECURSIVE SetOwnPos(_, _, _)
SetOwnPos(op, seq, k) ==
    IF k > Len(seq) THEN op
    ELSE SetOwnPos([op EXCEPT ![seq[k]] = k - 1], seq, k + 1)

\* Faulty second loop: the exchange with the other event is left out.
SwapWithOtherNoop(ev, op, e) == op

\* connect_edges.rs:37-43, the body of the second loop for one event.
SwapWithOther(ev, op, e) ==
    IF ev[e].is_left /\ OtherEvent(ev, e) # NoEvent
    THEN LET o == OtherEvent(ev, e)
         IN  [op EXCEPT ![e] = op[o], ![o] = op[e]]
    ELSE op

\* connect_edges.rs:36-44.
RECURSIVE SwapPositions(_, _, _, _)
SwapPositions(ev, op, seq, k) ==
    IF k > Len(seq) THEN op
    ELSE SwapPositions(ev, SwapWithOther(ev, op, seq[k]), seq, k + 1)

\* connect_edges.rs:32-44.
PopulateOtherPos(ev, op, seq) == SwapPositions(ev, SetOwnPos(op, seq, 1), seq, 1)

\* connect_edges.rs:7-47 as one function: the returned Vec and the other_pos
\* slots it leaves behind.
OrderEvents(ev, op, input) ==
    LET seq == SortEvents(ev, FilterEvents(ev, input))
    IN  [seq |-> seq, other_pos |-> PopulateOtherPos(ev, op, seq)]

-----------------------------------------------------------------------------
(* order_events, step by step                                              *)

FilterStep ==
    /\ pc = "filter"
    /\ result_events' = FilterEvents(events, sorted_events)
    /\ sorted' = FALSE
    /\ pc' = "sort"
    /\ UNCHANGED <<events, sorted_events, other_pos, connectVars, first_run>>

SortStep ==
    /\ pc = "sort"
    /\ ~sorted
    /\ LET st == SortPass(events, result_events)
       IN  /\ result_events' = st.seq
           /\ sorted' = st.sorted
    /\ UNCHANGED <<events, sorted_events, other_pos, connectVars, pc, first_run>>

PopulateStep ==
    /\ pc = "sort"
    /\ sorted
    /\ other_pos' = PopulateOtherPos(events, other_pos, result_events)
    /\ pc' = "for"
    /\ UNCHANGED <<events, sorted_events, result_events, sorted, connectVars, first_run>>

\* order_events called once more, on the sequence it has just returned.
OrderAgain ==
    /\ pc = "for"
    /\ first_run = <<>>
    /\ first_run' = <<[input |-> sorted_events, seq |-> result_events,
                       other_pos |-> other_pos]>>
    /\ sorted_events' = result_events
    /\ LET r == OrderEvents(events, other_pos, result_events)
       IN  /\ result_events' = r.seq
           /\ other_pos' = r.other_pos
    /\ pc' = "again"
    /\ UNCHANGED <<events, sorted, connectVars>>

NextOrder == FilterStep \/ SortStep \/ PopulateStep \/ OrderAgain

-----------------------------------------------------------------------------
(* next_pos                                                                *)

\* result_events[p].point
PointAt(ev, seq, p) == ev[seq[p + 1]].point

\* Faulty forward scan: visited positions are not passed over.
ScanForwardVisited(ev, seq, proc, p, new_pos) ==
    IF new_pos < Len(seq) /\ PointAt(ev, seq, new_pos) = p
    THEN new_pos
    ELSE -1

\* Faulty forward scan: the point is not compared.
RECURSIVE ScanForwardAnyPoint(_, _, _, _, _)
ScanForwardAnyPoint(ev, seq, proc, p, new_pos) ==
    IF new_pos < Len(seq)
    THEN IF new_pos \notin proc THEN new_pos
         ELSE ScanForwardAnyPoint(ev, seq, proc, p, new_pos + 1)
    ELSE -1

\* connect_edges.rs:54-71, the forward scan from new_pos: the position it
\* returns, or -1 when it falls through to the backward scan.
RECURSIVE ScanForward(_, _, _, _, _)
ScanForward(ev, seq, proc, p, new_pos) ==
    IF new_pos < Len(seq) /\ PointAt(ev, seq, new_pos) = p
    THEN IF new_pos \notin proc THEN new_pos
         ELSE ScanForward(ev, seq, proc, p, new_pos + 1)
    ELSE -1

\* Faulty backward scan: `>=` for `>`, a processed orig_pos is passed.
RECURSIVE ScanBackwardInclusive(_, _, _)
ScanBackwardInclusive(proc, o_pos, new_pos) ==
    IF new_pos \in proc /\ new_pos >= o_pos
    THEN ScanBackwardInclusive(proc, o_pos, new_pos - 1)
    ELSE new_pos

\* Faulty backward scan: orig_pos does not stop it.
RECURSIVE ScanBackwardPastOrig(_, _, _)
ScanBackwardPastOrig(proc, o_pos, new_pos) ==
    IF new_pos \in proc
    THEN ScanBackwardPastOrig(proc, o_pos, new_pos - 1)
    ELSE new_pos

\* Faulty backward scan: processed positions are not skipped.
ScanBackwardNoSkip(proc, o_pos, new_pos) == new_pos

\* connect_edges.rs:75-78, the backward scan from new_pos.
RECURSIVE ScanBackward(_, _, _)
ScanBackward(proc, o_pos, new_pos) ==
    IF new_pos \in proc /\ new_pos > o_pos
    THEN ScanBackward(proc, o_pos, new_pos - 1)
    ELSE new_pos

\* Faulty search: the backward scan is left out.
NextPosForwardOnly(ev, seq, proc, p, o_pos) ==
    LET fwd == ScanForward(ev, seq, proc, PointAt(ev, seq, p), p + 1)
    IN  IF fwd # -1 THEN fwd ELSE o_pos

\* Faulty search: the forward scan is left out.
NextPosBackwardOnly(ev, seq, proc, p, o_pos) == ScanBackward(proc, o_pos, p - 1)

\* connect_edges.rs:49-79.
NextPos(ev, seq, proc, p, o_pos) ==
    LET fwd == ScanForward(ev, seq, proc, PointAt(ev, seq, p), p + 1)
    IN  IF fwd # -1 THEN fwd ELSE ScanBackward(proc, o_pos, p - 1)

-----------------------------------------------------------------------------
(* Contour                                                                 *)

\* Faulty constructor: the depth is not taken over.
NewContourDepthZero(hole_of, depth) ==
    [points |-> <<>>, hole_ids |-> <<>>, hole_of |-> hole_of, depth |-> 0]

\* connect_edges.rs:101-108.
NewContour(hole_of, depth) ==
    [points |-> <<>>, hole_ids |-> <<>>, hole_of |-> hole_of, depth |-> depth]

\* Faulty nesting: the child replaces the holes recorded before.
PushHoleReplace(cs, id, child) ==
    [cs EXCEPT ![id + 1].hole_ids = <<child>>]

\* Faulty nesting: the child is not recorded in hole_ids.
PushHoleNot(cs, id, child) == cs

\* Faulty transition tests: `!= InOut`, and `== InOut`.
IsNotInOut(ev, e) == ev[e].trans # "InOut"

IsInOut(ev, e) == ev[e].trans = "InOut"

\* connect_edges.rs:122.
IsOutIn(ev, e) == ev[e].trans = "OutIn"

\* Faulty case split: the contour below is always taken for an exterior one.
LowerIsHoleNever(c) == FALSE

\* connect_edges.rs:126, `if let Some(..) = lower_contour.hole_of`.
LowerIsHole(c) == c.hole_of # None

\* contours[id].hole_ids.push(child)
PushHole(cs, id, child) ==
    [cs EXCEPT ![id + 1].hole_ids = Append(@, child)]

\* connect_edges.rs:111-150: the contour returned and the contour list as the
\* call leaves it.  e is the start event, ocid the output_contour_id slots.
InitializeFromContext(ev, ocid, cs, e, cid) ==
    IF ev[e].prev # NoEvent
    THEN LET prev_in_result == ev[e].prev
             lower_contour_id == ocid[prev_in_result]
         IN  IF IsOutIn(ev, prev_in_result)
             THEN LET lower_contour == cs[lower_contour_id + 1]
                  IN  IF LowerIsHole(lower_contour)
                      THEN LET parent_contour_id == lower_contour.hole_of[1]
                           IN  [contours |-> PushHole(cs, parent_contour_id, cid),
                                contour |-> NewContour(Some(parent_contour_id),
                                                       cs[lower_contour_id + 1].depth)]
                      ELSE [contours |-> PushHole(cs, lower_contour_id, cid),
                            contour |-> NewContour(Some(lower_contour_id),
                                                   cs[lower_contour_id + 1].depth + 1)]
             ELSE [contours |-> cs,
                   contour |-> NewContour(None, cs[lower_contour_id + 1].depth)]
    ELSE [contours |-> cs, contour |-> NewContour(None, 0)]

\* connect_edges.rs:158-160.
IsExterior(c) == c.hole_of = None

-----------------------------------------------------------------------------
(* connect_edges                                                           *)

\* Faulty marking: the position is put into the set but the event not tagged.
MarkAsProcessedNoTag(st, seq, p, cid) ==
    [processed |-> st.processed \cup {p},
     ocid |-> st.ocid,
     marks |-> Append(st.marks, <<p, cid>>)]

\* connect_edges.rs:163-169: st = [processed, ocid, marks].
MarkAsProcessed(st, seq, p, cid) ==
    [processed |-> st.processed \cup {p},
     ocid |-> [st.ocid EXCEPT ![seq[p + 1]] = cid],
     marks |-> Append(st.marks, <<p, cid>>)]

\* connect_edges.rs:204-211, one iteration of the walk up to the test of
\* line 213: the marks made, the contour extended, the position found.
WalkIteration ==
    LET m1 == MarkAsProcessed([processed |-> processed, ocid |-> output_contour_id,
                               marks |-> marks], result_events, pos, contour_id)
        there == other_pos[result_events[pos + 1]]
        m2 == MarkAsProcessed(m1, result_events, there, contour_id)
    IN  [st |-> m2,
         contour |-> [contour EXCEPT
                        !.points = Append(@, PointAt(events, result_events, there))],
         pos |-> NextPos(events, result_events, m2.processed, there, orig_pos)]

\* connect_edges.rs:180-183: `continue`.
SkipProcessed ==
    /\ pc = "for"
    /\ i < Len(result_events)
    /\ i \in processed
    /\ i' = i + 1
    /\ UNCHANGED <<events, sorted_events, result_events, sorted, other_pos,
                   output_contour_id, contours, processed, contour_id, contour,
                   orig_pos, pos, ret, pc, marks, seeds, first_run>>

\* connect_edges.rs:185-192: a new contour is opened at position i.
OpenContour ==
    /\ pc = "for"
    /\ i < Len(result_events)
    /\ i \notin processed
    /\ contour_id' = Len(contours)
    /\ LET r == InitializeFromContext(events, output_contour_id, contours,
                                      result_events[i + 1], Len(contours))
       IN  /\ contours' = r.contours
           /\ contour' = [r.contour EXCEPT
                            !.points = Append(@, PointAt(events, result_events, i))]
    /\ orig_pos' = i
    /\ pos' = i
    /\ seeds' = Append(seeds, i)
    /\ pc' = "loop"
    /\ UNCHANGED <<events, sorted_events, result_events, sorted, other_pos,
                   output_contour_id, processed, i, ret, marks, first_run>>

\* connect_edges.rs:194-216, an iteration that does not leave the loop.
ContinueWalk ==
    /\ pc = "loop"
    /\ LET w == WalkIteration
       IN  /\ w.pos # orig_pos
           /\ processed' = w.st.processed
           /\ output_contour_id' = w.st.ocid
           /\ marks' = w.st.marks
           /\ contour' = w.contour
           /\ pos' = w.pos
    /\ UNCHANGED <<events, sorted_events, result_events, sorted, other_pos,
                   contours, i, contour_id, orig_pos, ret, pc, seeds, first_run>>

\* connect_edges.rs:194-222, the iteration that ends at `break`: the contour
\* is pushed and the for loop moves on.
CloseContour ==
    /\ pc = "loop"
    /\ LET w == WalkIteration
       IN  /\ w.pos = orig_pos
           /\ processed' = w.st.processed
           /\ output_contour_id' = w.st.ocid
           /\ marks' = w.st.marks
           /\ contours' = Append(contours, w.contour)
           /\ pos' = w.pos
    /\ contour' = NoContour
    /\ i' = i + 1
    /\ pc' = "for"
    /\ UNCHANGED <<events, sorted_events, result_events, sorted, other_pos,
                   contour_id, orig_pos, ret, seeds, first_run>>

\* connect_edges.rs:224.
Return ==
    /\ pc = "for"
    /\ i >= Len(result_events)
    /\ pc' = "done"
    /\ UNCHANGED <<events, sorted_events, result_events, sorted, other_pos,
                   connectVars, first_run>>

NextConnect == SkipProcessed \/ OpenContour \/ ContinueWalk \/ CloseContour \/ Return

Next == FilterStep \/ SortStep \/ PopulateStep \/ NextConnect

-----------------------------------------------------------------------------
(* Inputs of the order_events specification: any fields, a partner that    *)
(* may be missing on either side.                                          *)

Partner(e) == IF e % 2 = 1 THEN e + 1 ELSE e - 1

OrderInputs(n) ==
    { ev \in [1..n ->
                [point : 1..MaxOrderPoint, is_left : BOOLEAN, other : 0..n,
                 in_result : BOOLEAN, prev : {NoEvent}, trans : {"None"}]] :
        \A e \in 1..n :
            ev[e].other \in {NoEvent} \cup ({Partner(e)} \cap (1..n)) }

InitConnectVars ==
    /\ contours = <<>>
    /\ processed = {}
    /\ i = 0
    /\ contour_id = 0
    /\ contour = NoContour
    /\ orig_pos = 0
    /\ pos = 0
    /\ ret = 0
    /\ marks = <<>>
    /\ seeds = <<>>

InitOrder ==
    /\ \E n \in 0..MaxEvents : events \in OrderInputs(n)
    /\ sorted_events = [k \in DOMAIN events |-> k]
    /\ result_events = <<>>
    /\ sorted = FALSE
    /\ other_pos = [e \in DOMAIN events |-> 0]
    /\ output_contour_id = [e \in DOMAIN events |-> UnsetContourId]
    /\ InitConnectVars
    /\ pc = "filter"
    /\ first_run = <<>>

-----------------------------------------------------------------------------
(* Inputs of the connect_edges specification.  An input is a list of       *)
(* segments [l, r, res, trans, prev]: the points of the left and the right *)
(* endpoint (l before r in the sweep order), is_in_result and              *)
(* result_transition of the left event, and the segment whose left event   *)
(* is prev_in_result (0: none).  Segment s gives the events 2s-1 (left)    *)
(* and 2s (right), paired with each other; right events carry no result    *)
(* flag, transition or prev_in_result of their own.  The sweep hands the   *)
(* events over in the order L1 R1 L2 R2 ...; prev_in_result is a segment   *)
(* of the result whose left event the sweep has handled before.            *)

Seg(l, r, res, trans, prev) ==
    [l |-> l, r |-> r, res |-> res, trans |-> trans, prev |-> prev]

EventsOf(segs) ==
    [e \in 1..(2 * Len(segs)) |->
        LET sg == segs[(e + 1) \div 2]
        IN  IF e % 2 = 1
            THEN [point |-> sg.l, is_left |-> TRUE, other |-> e + 1,
                  in_result |-> sg.res,
                  prev |-> IF sg.prev = 0 THEN NoEvent ELSE 2 * sg.prev - 1,
                  trans |-> sg.trans]
            ELSE [point |-> sg.r, is_left |-> FALSE, other |-> e - 1,
                  in_result |-> FALSE, prev |-> NoEvent, trans |-> "None"]]

\* The segments that may follow the list s.  Left points do not decrease, so
\* the left event of an earlier segment is never after that of a later one;
\* a segment of the result has the latest earlier segment of the result as
\* its prev_in_result, and is an OutIn or an InOut transition.
NextSegs(s) ==
    LET lo == IF s = <<>> THEN 1 ELSE s[Len(s)].l
        pairs == {<<l, r>> \in (lo..MaxPoint) \X (1..MaxPoint) : l < r}
        res == {j \in 1..Len(s) : s[j].res}
        below == IF res = {} THEN 0 ELSE CHOOSE j \in res : \A k \in res : k <= j
    IN  {Seg(p[1], p[2], FALSE, "None", 0) : p \in pairs}
        \cup {Seg(x[1][1], x[1][2], TRUE, x[2], below) :
                x \in pairs \X {"OutIn", "InOut"}}

RECURSIVE SegLists(_)
SegLists(k) ==
    IF k = 0 THEN {<<>>}
    ELSE UNION {{Append(s, sg) : sg \in NextSegs(s)} : s \in SegLists(k - 1)}

\* Outer square (0,0)-(3,3) minus inner square (1,1)-(2,2); the points in
\* sweep order: 1=(0,0) 2=(0,3) 3=(1,1) 4=(1,2) 5=(2,1) 6=(2,2) 7=(3,0) 8=(3,3).
Annulus ==
    << Seg(1, 7, TRUE, "OutIn", 0),   \* outer bottom
       Seg(1, 2, TRUE, "InOut", 1),   \* outer left
       Seg(2, 8, TRUE, "InOut", 1),   \* outer top
       Seg(3, 5, TRUE, "InOut", 1),   \* inner bottom, above the outer bottom
       Seg(3, 4, TRUE, "OutIn", 4),   \* inner left
       Seg(4, 6, TRUE, "OutIn", 4),   \* inner top
       Seg(5, 6, TRUE, "OutIn", 1),   \* inner right
       Seg(7, 8, TRUE, "InOut", 0) >> \* outer right

\* Two triangles touching at (1,1); the points in sweep order:
\* 1=(0,0) 2=(0,2) 3=(1,1) 4=(2,0) 5=(2,2).
FigureEight ==
    << Seg(1, 3, TRUE, "OutIn", 0),
       Seg(1, 2, TRUE, "InOut", 1),
       Seg(2, 3, TRUE, "InOut", 1),
       Seg(3, 4, TRUE, "OutIn", 0),
       Seg(3, 5, TRUE, "InOut", 4),
       Seg(4, 5, TRUE, "InOut", 4) >>

\* Two disjoint squares (0,0)-(1,1) and (2,0)-(3,1); the points in sweep order:
\* 1=(0,0) 2=(0,1) 3=(1,0) 4=(1,1) 5=(2,0) 6=(2,1) 7=(3,0) 8=(3,1).
TwoSquares ==
    << Seg(1, 3, TRUE, "OutIn", 0),
       Seg(1, 2, TRUE, "InOut", 1),
       Seg(2, 4, TRUE, "InOut", 1),
       Seg(3, 4, TRUE, "InOut", 0),
       Seg(5, 7, TRUE, "OutIn", 0),
       Seg(5, 6, TRUE, "InOut", 5),
       Seg(6, 8, TRUE, "InOut", 5),
       Seg(7, 8, TRUE, "InOut", 0) >>

\* k triangles, the r-th on the points 3r-2, 3r-1, 3r: its lower edge (the
\* edge its walk starts from, an OutIn transition), its upper edge (InOut) and
\* its closing edge (no transition).  prev_in_result of the lower edge is any
\* edge of an earlier triangle, or none; the other two edges have the lower
\* edge below them.
Triangle(r, prev) ==
    << Seg(3 * r - 2, 3 * r - 1, TRUE, "OutIn", prev),
       Seg(3 * r - 2, 3 * r, TRUE, "InOut", 3 * r - 2),
       Seg(3 * r - 1, 3 * r, TRUE, "None", 3 * r - 2) >>

RECURSIVE NestLists(_)
NestLists(k) ==
    IF k = 0 THEN {<<>>}
    ELSE {s \o Triangle(k, prev) : s \in NestLists(k - 1), prev \in 0..(3 * (k - 1))}

\* The two triangles of FigureEight with the events of the shared point in
\* another order.  Events the order does not tell apart keep the order the
\* input has them in, so the segments are listed in the order wanted: rs puts
\* the right event of the edge from 2 before that of the edge from 1, ls the
\* left event of the edge to 5 before that of the edge to 4.  prev_in_result
\* is the edge handled just before in that order.
FigureEightIn(rs, ls) ==
    (IF rs THEN << Seg(2, 3, TRUE, "InOut", 2),
                   Seg(1, 3, TRUE, "OutIn", 0),
                   Seg(1, 2, TRUE, "InOut", 2) >>
           ELSE << Seg(1, 3, TRUE, "OutIn", 0),
                   Seg(1, 2, TRUE, "InOut", 1),
                   Seg(2, 3, TRUE, "InOut", 1) >>)
    \o
    (IF ls THEN << Seg(3, 5, TRUE, "InOut", 0),
                   Seg(3, 4, TRUE, "OutIn", 4),
                   Seg(4, 5, TRUE, "InOut", 5) >>
           ELSE << Seg(3, 4, TRUE, "OutIn", 0),
                   Seg(3, 5, TRUE, "InOut", 4),
                   Seg(4, 5, TRUE, "InOut", 4) >>)

\* Two triangles touching at (1,1), one below the other: (0,0) (2,0) (1,1)
\* and (0,2) (1,1) (2,2); the points in sweep order as for FigureEight.  At
\* the shared point each triangle has one edge arriving and one leaving.
FigureEightVertical ==
    << Seg(1, 4, TRUE, "OutIn", 0),   \* lower triangle, bottom
       Seg(1, 3, TRUE, "InOut", 1),   \* lower triangle, left
       Seg(2, 3, TRUE, "OutIn", 2),   \* upper triangle, left
       Seg(2, 5, TRUE, "InOut", 3),   \* upper triangle, top
       Seg(3, 4, TRUE, "InOut", 1),   \* lower triangle, right
       Seg(3, 5, TRUE, "OutIn", 5) >> \* upper triangle, right

FigureEights ==
    {FigureEight, FigureEightVertical}
        \cup {FigureEightIn(rs, ls) : rs \in BOOLEAN, ls \in BOOLEAN}

Shapes == {Annulus, TwoSquares} \cup FigureEights

Inputs == SegLists(MaxSegs) \cup NestLists(MaxRings) \cup Shapes

Init ==
    /\ \E segs \in Inputs : events = EventsOf(segs)
    /\ sorted_events = [k \in DOMAIN events |-> k]
    /\ result_events = <<>>
    /\ sorted = FALSE
    /\ other_pos = [e \in DOMAIN events |-> 0]
    /\ output_contour_id = [e \in DOMAIN events |-> UnsetContourId]
    /\ InitConnectVars
    /\ pc = "filter"
    /\ first_run = <<>>

Spec == Init /\ [][Next]_vars

SpecOrder == InitOrder /\ [][NextOrder]_vars

-----------------------------------------------------------------------------
(* next_pos called on its own.  The sequence is one order_events can       *)
(* return, its points in ascending order; pos has just been marked         *)
(* (connect_edges.rs:208) and lies after orig_pos.                         *)

\* The event records of a sequence of n positions; only the point counts.
ScanInputs(n) ==
    { ev \in [1..n ->
                [point : 1..MaxScanPoint, is_left : {TRUE}, other : {NoEvent},
                 in_result : {TRUE}, prev : {NoEvent}, trans : {"None"}]] :
        \A e \in 2..n : ev[e - 1].point <= ev[e].point }

InitNextPos ==
    /\ \E n \in 2..MaxScanLen : events \in ScanInputs(n)
    /\ sorted_events = [k \in DOMAIN events |-> k]
    /\ result_events = sorted_events
    /\ sorted = TRUE
    /\ other_pos = [e \in DOMAIN events |-> 0]
    /\ output_contour_id = [e \in DOMAIN events |-> UnsetContourId]
    /\ contours = <<>>
    /\ processed \in SUBSET (0..(Len(result_events) - 1))
    /\ pos \in 0..(Len(result_events) - 1)
    /\ pos \in processed
    /\ orig_pos \in 0..(pos - 1)
    /\ i = orig_pos
    /\ contour_id = 0
    /\ contour = NoContour
    /\ ret = 0
    /\ marks = <<>>
    /\ seeds = <<>>
    /\ pc = "next_pos"
    /\ first_run = <<>>

\* connect_edges.rs:49-79, one call.
CallNextPos ==
    /\ pc = "next_pos"
    /\ ret' = NextPos(events, result_events, processed, pos, orig_pos)
    /\ pc' = "returned"
    /\ UNCHANGED <<events, sorted_events, result_events, sorted, other_pos,
                   output_contour_id, contours, processed, i, contour_id, contour,
                   orig_pos, pos, marks, seeds, first_run>>

SpecNextPos == InitNextPos /\ [][CallNextPos]_vars

-----------------------------------------------------------------------------
(* Vocabulary of the properties                                            *)

Range(s) == {s[k] : k \in DOMAIN s}

Count(s, x) == Cardinality({k \in DOMAIN s : s[k] = x})

\* other_event is symmetric: every event has a partner whose partner it is.
SymmetricPairing(ev) ==
    \A e \in DOMAIN ev :
        /\ ev[e].other # NoEvent
        /\ ev[ev[e].other].other = e

\* Exactly one of two paired events is the left one.
OneLeftPerPair(ev) ==
    \A e \in DOMAIN ev :
        ev[e].other # NoEvent => ev[e].is_left # ev[ev[e].other].is_left

WellFormed(ev) == SymmetricPairing(ev) /\ OneLeftPerPair(ev)

\* order_events has returned.
Ordered == pc \in {"for", "loop", "done", "again"}

NumPositions == Len(result_events)

Positions == 0..(NumPositions - 1)

EventAt(p) == result_events[p + 1]

\* The contours that exist: those pushed and, during a walk, the one being
\* walked, whose id is the length of the list.
Rings == IF pc = "loop" THEN Append(contours, contour) ELSE contours

RingIds == 0..(Len(Rings) - 1)

Ring(id) == Rings[id + 1]

\* The event a contour's walk started from, and the contour that owns its
\* prev_in_result.
SeedEvent(id) == EventAt(seeds[id + 1])

PrevOf(id) == events[SeedEvent(id)].prev

PrevRing(id) == output_contour_id[PrevOf(id)]

\* Which of the four cases of Fig. 4 made contour id.
CaseOf(id) ==
    IF PrevOf(id) = NoEvent THEN 1
    ELSE IF events[PrevOf(id)].trans # "OutIn" THEN 2
    ELSE IF Ring(PrevRing(id)).hole_of # None THEN 3
    ELSE 4

-----------------------------------------------------------------------------
(* C1 *)

\* C1 (partition): mark_as_processed is never called on a position that is
\* already processed, the processed set is the set of positions marked, and
\* when connect_edges returns every position 0..n-1 has been marked exactly
\* once, with the id of one contour of the list, which is the id its event
\* carries.
C1_Partition ==
    /\ \A a, b \in DOMAIN marks : a # b => marks[a][1] # marks[b][1]
    /\ processed = {marks[k][1] : k \in DOMAIN marks}
    /\ pc = "done" =>
          \A p \in Positions :
              /\ Cardinality({k \in DOMAIN marks : marks[k][1] = p}) = 1
              /\ \E k \in DOMAIN marks :
                    /\ marks[k] = <<p, output_contour_id[EventAt(p)]>>
                    /\ marks[k][2] \in 0..(Len(contours) - 1)

\* C1's case: connect_edges has returned several contours, one of them with
\* more than one segment.
C1_Witness ==
    /\ pc = "done"
    /\ Len(contours) >= 2
    /\ NumPositions >= 6
    /\ \E c \in Range(contours) : Len(c.points) >= 3

-----------------------------------------------------------------------------
(* C2 *)

\* The kept events at point q.
EventsAtPoint(q) == {p \in Positions : events[EventAt(p)].point = q}

\* The result edges bound a region: every point is the endpoint of an even
\* number of result segments, and no two result segments join the same two
\* points.
ClosedBoundary ==
    /\ \A q \in {events[e].point : e \in DOMAIN events} :
          Cardinality(EventsAtPoint(q)) % 2 = 0
    /\ \A p1, p2 \in Positions :
          (/\ p1 # p2
           /\ events[EventAt(p1)].is_left
           /\ events[EventAt(p2)].is_left
           /\ events[EventAt(p1)].point = events[EventAt(p2)].point)
          => events[events[EventAt(p1)].other].point
               # events[events[EventAt(p2)].other].point

\* C2 (closure): on a valid input (well-formed pairing, result edges that
\* bound a region) every contour returned starts and ends at the same point
\* and has at least 3 distinct points.
C2_Closure ==
    (pc = "done" /\ WellFormed(events) /\ ClosedBoundary) =>
        \A c \in Range(contours) :
            /\ Len(c.points) >= 1
            /\ c.points[1] = c.points[Len(c.points)]
            /\ Cardinality(Range(c.points)) >= 3

\* C2's case: a valid input for which several contours are returned.
C2_Witness ==
    /\ pc = "done"
    /\ WellFormed(events)
    /\ ClosedBoundary
    /\ Len(contours) >= 2

-----------------------------------------------------------------------------
(* C3 *)

\* Following hole_of from contour id for at most n steps ends at a contour
\* that is no hole.
RECURSIVE ReachesRoot(_, _)
ReachesRoot(id, n) ==
    IF Ring(id).hole_of = None THEN TRUE
    ELSE IF n = 0 THEN FALSE
    ELSE ReachesRoot(Ring(id).hole_of[1], n - 1)

\* C3 (nesting forest): in every state, hole_of names a contour with a
\* strictly smaller id, following hole_of ends at a contour with hole_of =
\* None, every id in contour p's hole_ids is a contour whose hole_of is
\* Some(p), and a contour with hole_of = Some(p) is in p's hole_ids exactly
\* once.
C3_NestingForest ==
    \A id \in RingIds :
        /\ Ring(id).hole_of # None => Ring(id).hole_of[1] \in 0..(id - 1)
        /\ ReachesRoot(id, Len(Rings))
        /\ \A k \in DOMAIN Ring(id).hole_ids :
              /\ Ring(id).hole_ids[k] \in RingIds
              /\ Ring(Ring(id).hole_ids[k]).hole_of = Some(id)
        /\ Ring(id).hole_of # None =>
              Count(Ring(Ring(id).hole_of[1]).hole_ids, id) = 1

\* C3's case: a returned list in which one contour has two holes and a hole
\* lies below another hole.
C3_Witness ==
    /\ pc = "done"
    /\ \E id \in RingIds : Len(Ring(id).hole_ids) >= 2
    /\ \E id \in RingIds : CaseOf(id) = 3

-----------------------------------------------------------------------------
(* C4 *)

\* The depth of contour id as the statement to be checked has it: `below`
\* is the depth it names for a contour made by case 3.
DepthRule(id, below) ==
    CASE CaseOf(id) = 1 -> Ring(id).depth = 0
      [] CaseOf(id) = 2 -> /\ Ring(id).hole_of = None
                           /\ Ring(id).depth = Ring(PrevRing(id)).depth
      [] CaseOf(id) = 3 -> /\ Ring(id).hole_of # None
                           /\ Ring(id).depth = below
      [] CaseOf(id) = 4 -> /\ Ring(id).hole_of # None
                           /\ Ring(id).depth = Ring(Ring(id).hole_of[1]).depth + 1

\* C4 as stated: a contour made by case 3 has the depth of its parent, the
\* contour named by its hole_of.
C4_DepthAsStated ==
    \A id \in RingIds :
        DepthRule(id, IF Ring(id).hole_of # None
                      THEN Ring(Ring(id).hole_of[1]).depth ELSE 0)

\* C4 (depth, amended): a contour made by case 3 has the depth of the
\* contour that owns its prev_in_result, a hole of the same parent, which is
\* the parent's depth + 1; a contour made by case 4 has its parent's depth
\* + 1; an exterior contour has the depth of the contour that owns its
\* prev_in_result, or 0 without prev_in_result.
C4_DepthAmended ==
    \A id \in RingIds :
        /\ DepthRule(id, Ring(PrevRing(id)).depth)
        /\ CaseOf(id) = 3 =>
              /\ Ring(PrevRing(id)).hole_of = Ring(id).hole_of
              /\ Ring(id).depth = Ring(Ring(id).hole_of[1]).depth + 1

\* C4's case: the list returned holds a contour made by case 3, one made by
\* case 4 and an exterior contour below the outermost level.
C4_Witness ==
    /\ pc = "done"
    /\ \E id \in RingIds : CaseOf(id) = 3
    /\ \E id \in RingIds : CaseOf(id) = 4
    /\ \E id \in RingIds : CaseOf(id) = 2 /\ Ring(id).depth >= 1

-----------------------------------------------------------------------------
(* C5 *)

\* The contour list cs with child appended to the hole_ids of contour id
\* and nothing else changed.
WithHole(cs, id, child) ==
    [k \in DOMAIN cs |->
        IF k = id + 1
        THEN [cs[k] EXCEPT !.hole_ids = cs[k].hole_ids \o <<child>>]
        ELSE cs[k]]

\* What the step that opens a contour at position i must leave behind.
OpenedAsSpecified ==
    LET e == EventAt(i)
        prev == events[e].prev
        new_id == Len(contours)
        prev_ring_id == output_contour_id[prev]
        prev_ring == contours[prev_ring_id + 1]
    IN  /\ contour_id' = new_id
        /\ contour'.hole_ids = <<>>
        /\ IF prev = NoEvent
           THEN /\ contour'.hole_of = None
                /\ contour'.depth = 0
                /\ contours' = contours
           ELSE IF events[prev].trans # "OutIn"
           THEN /\ contour'.hole_of = None
                /\ contour'.depth = prev_ring.depth
                /\ contours' = contours
           ELSE IF prev_ring.hole_of # None
           THEN /\ contour'.hole_of = prev_ring.hole_of
                /\ contour'.depth = prev_ring.depth
                /\ contours' = WithHole(contours, prev_ring.hole_of[1], new_id)
           ELSE /\ contour'.hole_of = Some(prev_ring_id)
                /\ contour'.depth = prev_ring.depth + 1
                /\ contours' = WithHole(contours, prev_ring_id, new_id)

\* C5 (four-case rule): every step that opens a contour gives it hole_of and
\* depth by the four cases, appends its id to the hole_ids of exactly one
\* contour in cases 3 and 4 (the parent, respectively the contour below) and
\* changes no contour in cases 1 and 2.
C5_FourCases ==
    [][(pc = "for" /\ pc' = "loop") => OpenedAsSpecified]_vars

\* C5's case: contours have been opened by each of the four cases, case 2
\* below an edge that is no transition.
C5_Witness ==
    /\ pc = "done"
    /\ \A c \in 1..4 : \E id \in RingIds : CaseOf(id) = c
    /\ \E id \in RingIds : CaseOf(id) = 2 /\ events[PrevOf(id)].trans = "None"

-----------------------------------------------------------------------------
(* C6 *)

\* The filter as the contract words it: a left event of the result, or a
\* right event whose partner is in the result.
ResultRelevant(e) ==
    \/ events[e].is_left /\ events[e].in_result
    \/ /\ ~events[e].is_left
       /\ events[e].other # NoEvent
       /\ events[events[e].other].in_result

\* e and its partner are the two endpoints of one segment: each is the
\* other's partner, one is the left and one the right endpoint.
SegmentEnd(e) ==
    /\ events[e].other # NoEvent
    /\ events[events[e].other].other = e
    /\ events[e].is_left # events[events[e].other].is_left

\* C6 (filtering): what order_events returns holds, each exactly once, the
\* input events that are a left event in the result or a right event whose
\* partner is in the result, and no other event; an event without partner
\* that is no left event of the result is not kept; the two endpoints of a
\* segment are both kept or both dropped.
C6_Filtering ==
    pc # "filter" =>
        /\ \A e \in DOMAIN events :
              Count(result_events, e) =
                  IF e \in Range(sorted_events) /\ ResultRelevant(e) THEN 1 ELSE 0
        /\ \A e \in DOMAIN events :
              (events[e].other = NoEvent /\ ~(events[e].is_left /\ events[e].in_result))
              => e \notin Range(result_events)
        /\ \A e \in DOMAIN events :
              SegmentEnd(e) =>
                  (e \in Range(result_events) <=> events[e].other \in Range(result_events))

\* C6's case: order_events has returned; it kept a right event whose own
\* flag is not set, dropped a right event whose own flag is set, and dropped
\* an event without partner.
C6_Witness ==
    /\ pc = "for"
    /\ \E e \in Range(result_events) : ~events[e].is_left /\ ~events[e].in_result
    /\ \E e \in DOMAIN events \ Range(result_events) :
          ~events[e].is_left /\ events[e].in_result
    /\ \E e \in DOMAIN events \ Range(result_events) : events[e].other = NoEvent

-----------------------------------------------------------------------------
(* C7 *)

\* C7 (pairing indices): once order_events has returned, with symmetric
\* pairing and one left event per pair, other_pos of the event at position p
\* is a position q of the sequence, q is not p, the event at q is the
\* partner of the event at p, and other_pos of the event at q is p.
C7_PairingIndices ==
    (Ordered /\ WellFormed(events)) =>
        \A p \in Positions :
            LET q == other_pos[EventAt(p)]
            IN  /\ q \in Positions
                /\ q # p
                /\ EventAt(q) = events[EventAt(p)].other
                /\ other_pos[EventAt(q)] = p

\* C7's case: order_events has returned at least two segments, the sort has
\* moved events, and some segment's endpoints are not neighbours.
C7_Witness ==
    /\ pc = "for"
    /\ WellFormed(events)
    /\ NumPositions >= 4
    /\ result_events # FilterEvents(events, sorted_events)
    /\ \E p \in Positions : other_pos[EventAt(p)] > p + 1

-----------------------------------------------------------------------------
(* C8 *)

\* The comparator does not tell a and b apart.
Tied(a, b) == ~EventLess(events, a, b) /\ ~EventLess(events, b, a)

PosIn(seq, e) == CHOOSE k \in DOMAIN seq : seq[k] = e

\* result_events is the filtered input, reordered: no exchange is left to
\* do between neighbours, no earlier element is smaller than a later one, and
\* tied events are in their input order.
SortedStable ==
    LET filtered == FilterEvents(events, sorted_events)
    IN  /\ Len(result_events) = Len(filtered)
        /\ \A e \in DOMAIN events : Count(result_events, e) = Count(filtered, e)
        /\ \A k \in 2..Len(result_events) :
              ~EventLess(events, result_events[k - 1], result_events[k])
        /\ \A a, b \in DOMAIN result_events :
              a < b => ~EventLess(events, result_events[a], result_events[b])
        /\ \A a, b \in DOMAIN filtered :
              (a < b /\ Tied(filtered[a], filtered[b]))
              => PosIn(result_events, filtered[a]) < PosIn(result_events, filtered[b])

\* The pairs of positions of result_events that an exchange sort still has
\* to put right: the earlier element is `<` the later one.
OutOfOrderPairs(seq) ==
    {pr \in (DOMAIN seq) \X (DOMAIN seq) :
        pr[1] < pr[2] /\ EventLess(events, seq[pr[1]], seq[pr[2]])}

\* C8 (ordering): what order_events returns is a permutation of the
\* filtered events in which no neighbours are out of order by the comparator
\* and events it does not tell apart keep their input order; and the
\* exchange-sort loop ends: a pass either finds the sequence sorted, which
\* ends the loop, or leaves fewer pairs out of order than it found.
C8_Ordering ==
    /\ [](pc \in {"for", "again"} => SortedStable)
    /\ [][(pc = "sort" /\ ~sorted) =>
            \/ sorted' /\ pc' = "sort" /\ result_events' = result_events
            \/ /\ ~sorted'
               /\ Cardinality(OutOfOrderPairs(result_events'))
                    < Cardinality(OutOfOrderPairs(result_events))]_vars

\* C8's case: the sort has returned after exchanging events, with tied
\* events among them.
C8_Witness ==
    /\ pc = "for"
    /\ result_events # FilterEvents(events, sorted_events)
    /\ \E a, b \in DOMAIN result_events : a # b /\ Tied(result_events[a], result_events[b])

-----------------------------------------------------------------------------
(* C9 *)

-----------------------------------------------------------------------------
(* C10 *)

\* C10 (annulus): for the outer square with the centred inner square,
\* connect_edges returns two contours: contour 0 with hole_of = None, depth
\* 0 and hole_ids = [1]; contour 1 with hole_of = Some(0), depth 1 and no
\* holes.
C10_Annulus ==
    (pc = "done" /\ events = EventsOf(Annulus)) =>
        /\ Len(contours) = 2
        /\ contours[1].hole_of = None
        /\ contours[1].depth = 0
        /\ contours[1].hole_ids = <<1>>
        /\ contours[2].hole_of = Some(0)
        /\ contours[2].depth = 1
        /\ contours[2].hole_ids = <<>>

\* C10's case: connect_edges has returned for the annulus, the inner ring
\* started from the inner square's lowest edge.
C10_Witness ==
    /\ pc = "done"
    /\ events = EventsOf(Annulus)
    /\ Len(seeds) = 2
    /\ events[EventAt(seeds[2])].prev = 1
    /\ events[1].trans = "OutIn"

-----------------------------------------------------------------------------
(* C11 *)

\* The point the two loops of a figure-eight input share: the one the first
\* edge of FigureEight ends at.
SharedPoint == FigureEight[1].r

IsFigureEight == \E segs \in FigureEights : events = EventsOf(segs)

\* The two loops of the figure-eight input at hand, as sets of points.
FigureEightLoops ==
    IF events = EventsOf(FigureEightVertical)
    THEN {{1, 3, 4}, {2, 3, 5}}
    ELSE {{1, 2, 3}, {3, 4, 5}}

\* The loop the segment of the event at position p belongs to.
LoopAt(p) ==
    CHOOSE l \in FigureEightLoops :
        {events[EventAt(p)].point, events[events[EventAt(p)].other].point} \subseteq l

\* The position at which a walk first reaches the shared point.
Arrival ==
    LET k == CHOOSE k \in DOMAIN marks :
                 /\ PointAt(events, result_events, marks[k][1]) = SharedPoint
                 /\ \A j \in 1..(k - 1) :
                       PointAt(events, result_events, marks[j][1]) # SharedPoint
    IN  marks[k][1]

\* The position the scans of next_pos meet first from position a: the next
\* one, if it has the same point, the one before otherwise.
FirstScanned(a) ==
    IF a + 1 < NumPositions
       /\ PointAt(events, result_events, a + 1) = PointAt(events, result_events, a)
    THEN a + 1
    ELSE a - 1

\* No position is marked twice, every contour ends where it starts and holds
\* the shared point.
ClosedThroughShared ==
    /\ \A a, b \in DOMAIN marks : a # b => marks[a][1] # marks[b][1]
    /\ \A c \in Range(contours) :
          /\ Len(c.points) >= 2
          /\ c.points[1] = c.points[Len(c.points)]
          /\ SharedPoint \in Range(c.points)

\* C11 as stated: for a figure-eight, in every order of the four events of
\* the shared point, connect_edges returns two separate closed rings that
\* both hold the shared point, and no walk re-enters a visited position.
C11_AsStated ==
    (pc = "done" /\ IsFigureEight) =>
        /\ Len(contours) = 2
        /\ ClosedThroughShared

\* C11 (figure-eight, amended): no walk re-enters a visited position and
\* every ring returned is closed and holds the shared point; there are two
\* rings, one per loop, when the event that follows the walk's arrival at the
\* shared point in the scan of next_pos is an event of the same loop, and
\* one ring through all points, passing the shared point twice, when it is an
\* event of the other loop.
C11_FigureEightAmended ==
    (pc = "done" /\ IsFigureEight) =>
        /\ ClosedThroughShared
        /\ IF LoopAt(Arrival) = LoopAt(FirstScanned(Arrival))
           THEN /\ Len(contours) = 2
                /\ {Range(contours[1].points), Range(contours[2].points)}
                      = FigureEightLoops
           ELSE /\ Len(contours) = 1
                /\ Range(contours[1].points) = 1..5
                /\ Len(contours[1].points) = 7
                /\ Count(contours[1].points, SharedPoint) = 2

\* C11's case: connect_edges has returned for the two triangles side by
\* side, the right events of the shared point in the order in which the walk
\* of the first triangle meets an edge of the second one first.
C11_Witness ==
    /\ pc = "done"
    /\ events = EventsOf(FigureEightIn(TRUE, FALSE))
    /\ LoopAt(Arrival) # LoopAt(FirstScanned(Arrival))
    /\ Len(contours) = 1

-----------------------------------------------------------------------------
(* C12 *)

\* The unvisited positions after pos that a run of positions with the point
\* of pos leads to, and the unvisited positions between orig_pos and pos.
ForwardCandidates ==
    {q \in (pos + 1)..(NumPositions - 1) :
        /\ q \notin processed
        /\ \A k \in (pos + 1)..q :
              PointAt(events, result_events, k) = PointAt(events, result_events, pos)}

BackwardCandidates == {q \in (orig_pos + 1)..(pos - 1) : q \notin processed}

Least(S) == CHOOSE x \in S : \A y \in S : x <= y

Greatest(S) == CHOOSE x \in S : \A y \in S : x >= y

\* C12 (continuation search): with orig_pos < pos, next_pos returns the
\* smallest unvisited position after pos that a run of positions with the
\* point of pos leads to, if there is one; otherwise the largest unvisited
\* position strictly between orig_pos and pos, if there is one; otherwise
\* orig_pos.  The value is no visited position other than orig_pos and lies
\* in orig_pos..n-1.
C12_ContinuationSearch ==
    pc = "returned" =>
        /\ ret = IF ForwardCandidates # {} THEN Least(ForwardCandidates)
                 ELSE IF BackwardCandidates # {} THEN Greatest(BackwardCandidates)
                 ELSE orig_pos
        /\ ret \in processed => ret = orig_pos
        /\ ret \in orig_pos..(NumPositions - 1)

\* C12's case: the positions after pos with its point are all visited, and
\* the backward scan has passed visited positions to an unvisited one above
\* orig_pos.
C12_Witness ==
    /\ pc = "returned"
    /\ pos + 1 < NumPositions
    /\ PointAt(events, result_events, pos + 1) = PointAt(events, result_events, pos)
    /\ ForwardCandidates = {}
    /\ ret < pos - 1
    /\ ret > orig_pos
    /\ ret \notin processed

-----------------------------------------------------------------------------
(* C13 *)

\* The input is valid: paired as the data model requires, with result
\* edges that bound a region.
ValidInput == WellFormed(events) /\ ClosedBoundary

\* The position the current iteration of the walk reaches by other_pos.
Reached == other_pos[EventAt(pos)]

\* Entries k and k + 1 of the points of contour id are the two endpoints of
\* one result segment that the contour's walk has followed.
SegmentOfRing(id, k) ==
    \E p \in Positions :
        /\ output_contour_id[EventAt(p)] = id
        /\ events[EventAt(p)].point = Ring(id).points[k]
        /\ events[events[EventAt(p)].other].point = Ring(id).points[k + 1]

-----------------------------------------------------------------------------
(* C14 *)

\* The iterations of the walk loop made so far, over all contours: each one
\* calls mark_as_processed twice.
Iterations == Len(marks) \div 2

\* What is left to do: positions the for loop has not passed, positions not
\* processed, and the step from the for loop into the walk.
Remaining ==
    3 * (NumPositions - i)
    + Cardinality(Positions \ processed)
    + (IF pc = "for" THEN 1 ELSE 0)

\* C14 (termination): connect_edges returns.  Until it has returned a step
\* is always possible, the for loop never passes n, and every step brings
\* the end nearer (Remaining, a natural number, decreases); every iteration
\* of the walk loop adds two positions to the processed set that were not in
\* it, so the walk loop runs at most n/2 times over all contours.
C14_Termination ==
    /\ []((pc \in {"for", "loop"}) =>
            /\ ENABLED NextConnect
            /\ i <= NumPositions
            /\ Remaining >= 0)
    /\ [][(pc \in {"for", "loop"}) => Remaining' < Remaining]_vars
    /\ [][pc = "loop" =>
            /\ processed \subseteq processed'
            /\ Cardinality(processed') = Cardinality(processed) + 2]_vars
    /\ [](Ordered => 2 * Iterations <= NumPositions)

\* C14's case: connect_edges has returned several contours after n/2
\* iterations of the walk loop, one for each of at least four segments.
C14_Witness ==
    /\ pc = "done"
    /\ Len(contours) >= 2
    /\ NumPositions >= 8
    /\ 2 * Iterations = NumPositions

-----------------------------------------------------------------------------
(* C15 *)

\* The position of event e in result_events, -1 if it is not there.
PositionOf(e) ==
    IF e \in Range(result_events) THEN PosIn(result_events, e) - 1 ELSE -1

\* C15 (prev_in_result is finished first): whenever a contour is about to
\* be opened at position i and the event at i has a prev_in_result, that
\* event is at a processed position and its output_contour_id is the id of a
\* contour already pushed: at least 0, so not the unset value, and smaller
\* than the id the new contour gets; during the walk of the new contour it
\* stays so, it is never the id of the contour being walked.
C15_PrevFinished ==
    /\ (pc = "for" /\ i < NumPositions /\ i \notin processed
            /\ events[EventAt(i)].prev # NoEvent) =>
          LET prev == events[EventAt(i)].prev
          IN  /\ PositionOf(prev) \in processed
              /\ output_contour_id[prev] # UnsetContourId
              /\ output_contour_id[prev] \in 0..(Len(contours) - 1)
    /\ (pc = "loop" /\ events[EventAt(orig_pos)].prev # NoEvent) =>
          LET prev == events[EventAt(orig_pos)].prev
          IN  /\ PositionOf(prev) \in processed
              /\ contour_id = Len(contours)
              /\ output_contour_id[prev] \in 0..(contour_id - 1)

\* C15's case: a contour has been opened at an event whose prev_in_result
\* belongs to a contour that is neither the first nor the latest one pushed.
C15_Witness ==
    /\ pc = "loop"
    /\ pos = orig_pos
    /\ events[EventAt(orig_pos)].prev # NoEvent
    /\ output_contour_id[events[EventAt(orig_pos)].prev] \in 1..(contour_id - 2)

-----------------------------------------------------------------------------
(* C16 *)

\* What a step may do to the contour at index k of the list: nothing, or,
\* when the step opens a contour that is its hole, append the new contour's
\* id to its hole_ids.
KeptAsPushed(k) ==
    /\ k \in DOMAIN contours'
    /\ contours'[k].points = contours[k].points
    /\ contours'[k].hole_of = contours[k].hole_of
    /\ contours'[k].depth = contours[k].depth
    /\ \/ contours'[k].hole_ids = contours[k].hole_ids
       \/ /\ pc = "for"
          /\ pc' = "loop"
          /\ contour'.hole_of = Some(k - 1)
          /\ contours'[k].hole_ids = Append(contours[k].hole_ids, contour_id')

\* C16 (ring lifecycle frame): a contour that is in the list stays at its
\* index with its points, hole_of and depth in every later step; the one
\* change a step makes to it is to append the id of a newly opened contour,
\* its hole, to its hole_ids.
C16_LifecycleFrame ==
    [][\A k \in DOMAIN contours : KeptAsPushed(k)]_vars

\* C16's case: a contour that was pushed earlier has just been given its
\* second hole, with other contours in the list.
C16_Witness ==
    /\ pc = "loop"
    /\ pos = orig_pos
    /\ Len(contours) >= 3
    /\ \E k \in DOMAIN contours :
          /\ Len(contours[k].hole_ids) >= 2
          /\ contours[k].hole_ids[Len(contours[k].hole_ids)] = contour_id

-----------------------------------------------------------------------------
(* C17 *)

\* The indices the next iteration of the walk uses are positions of
\* result_events: pos, the value read from other_pos, the position before
\* it, where the backward scan starts, and the value next_pos returns.
WalkIndicesInRange ==
    /\ pos \in Positions
    /\ Reached \in Positions
    /\ Reached - 1 \in Positions
    /\ WalkIteration.pos \in Positions

\* The ids with which initialize_from_context, called for the event at
\* position i, indexes the list: that of the contour of prev_in_result and,
\* if that contour is a hole, that of its parent.
ContourIndicesInRange ==
    LET prev == events[EventAt(i)].prev
        lower_contour_id == output_contour_id[prev]
    IN  prev # NoEvent =>
            /\ lower_contour_id \in 0..(Len(contours) - 1)
            /\ contours[lower_contour_id + 1].hole_of # None =>
                  contours[lower_contour_id + 1].hole_of[1] \in 0..(Len(contours) - 1)

\* C17 (no index out of range): whenever an iteration of the walk is about
\* to run, the positions it uses lie in 0..n-1, and whenever a contour is
\* about to be opened, position i lies in 0..n-1 and the contour ids used by
\* initialize_from_context are smaller than the length of the list.
C17_IndicesInRange ==
    /\ pc = "loop" => WalkIndicesInRange
    /\ (pc = "for" /\ i < NumPositions) => i \in Positions
    /\ (pc = "for" /\ i < NumPositions /\ i \notin processed) =>
          ContourIndicesInRange

\* C17's case: in the walk of a contour that is a hole, the iteration about
\* to run reads the last position from other_pos and goes on from the
\* position before it.
C17_Witness ==
    /\ pc = "loop"
    /\ contour.hole_of # None
    /\ Reached = NumPositions - 1
    /\ WalkIteration.pos = Reached - 1
    /\ WalkIteration.pos # orig_pos

-----------------------------------------------------------------------------
(* C18 *)

\* C18 (height of the nesting forest): the parent of a hole is no hole, and
\* a hole has its parent's depth + 1, whichever case made it.
C18_ForestHeight ==
    \A id \in RingIds :
        Ring(id).hole_of # None =>
            LET parent == Ring(Ring(id).hole_of[1])
            IN  /\ parent.hole_of = None
                /\ Ring(id).depth = parent.depth + 1

\* C18's case: the list returned holds a hole made by case 4, a hole made by
\* case 3 above it, and a hole made by case 3 above that one.
C18_Witness ==
    /\ pc = "done"
    /\ \E a, b, c \in RingIds :
          /\ CaseOf(a) = 4
          /\ CaseOf(b) = 3 /\ PrevRing(b) = a
          /\ CaseOf(c) = 3 /\ PrevRing(c) = b

-----------------------------------------------------------------------------
(* C19 *)

\* The seed position of the contour with id c.
SeedOf(c) == seeds[c + 1]

\* C19 (seeds are minimal and ascending): when a contour is opened at
\* position i, and all through its walk, every position below its seed is
\* processed; every position marked for a contour is at or above its seed,
\* and so is the position the walk stands at; seeds ascend with the contour
\* ids; and the id given to a contour when it is opened is the length of
\* the list until it is pushed, so it is the index it is pushed at, where it
\* is found with its seed's point first.
C19_SeedsAscending ==
    /\ (pc = "for" /\ i <= NumPositions) => \A p \in 0..(i - 1) : p \in processed
    /\ pc = "loop" =>
          /\ orig_pos = i
          /\ \A p \in 0..(orig_pos - 1) : p \in processed
          /\ pos >= orig_pos
          /\ contour_id = Len(contours)
          /\ SeedOf(contour_id) = orig_pos
    /\ Len(seeds) = Len(Rings)
    /\ \A k \in DOMAIN marks :
          /\ marks[k][2] \in RingIds
          /\ marks[k][1] >= SeedOf(marks[k][2])
    /\ \A a, b \in DOMAIN seeds : a < b => seeds[a] < seeds[b]
    /\ \A c \in RingIds :
          /\ Ring(c).points # <<>>
          /\ Ring(c).points[1] = PointAt(events, result_events, SeedOf(c))
          /\ output_contour_id[EventAt(SeedOf(c))] \in {c, UnsetContourId}

\* C19's case: connect_edges has returned a contour whose walk went past the
\* seed of a contour opened after it.
C19_Witness ==
    /\ pc = "done"
    /\ Len(contours) >= 2
    /\ \E k \in DOMAIN marks :
          /\ marks[k][2] + 1 \in RingIds
          /\ marks[k][1] > SeedOf(marks[k][2] + 1)

-----------------------------------------------------------------------------
(* C20 *)

\* The position of the partner of the event at position p.
PartnerPos(p) == other_pos[EventAt(p)]

\* The positions whose event carries the id c.
TaggedWith(c) == {p \in Positions : output_contour_id[EventAt(p)] = c}

\* C20 (segments are consumed whole): at the start of every iteration of
\* the walk loop, and between the walks, a position is processed exactly if
\* its partner position is, the events at the two positions of a processed
\* segment carry the same contour id, and a contour has one point more than
\* half the number of positions tagged with its id; so it is when
\* connect_edges returns, when every position is tagged.
C20_SegmentsWhole ==
    (pc \in {"for", "loop", "done"}) =>
        /\ \A p \in Positions : p \in processed <=> PartnerPos(p) \in processed
        /\ \A p \in processed :
              /\ output_contour_id[EventAt(p)] \in RingIds
              /\ output_contour_id[EventAt(p)] = output_contour_id[EventAt(PartnerPos(p))]
        /\ \A c \in RingIds :
              /\ Cardinality(TaggedWith(c)) % 2 = 0
              /\ Len(Ring(c).points) = 1 + Cardinality(TaggedWith(c)) \div 2
        /\ pc = "done" => processed = Positions

\* C20's case: connect_edges has returned two contours of four segments
\* each, every position tagged.
C20_Witness ==
    /\ pc = "done"
    /\ Len(contours) = 2
    /\ processed = Positions
    /\ \A c \in RingIds :
          /\ Len(Ring(c).points) = 5
          /\ Cardinality(TaggedWith(c)) = 8

====
